---- MODULE Spec2Model ----
(***************************************************************************)
(* The blotter registry of zipline/finance/blotter/core.py: one dict       *)
(* `_blotters`, its read-only `mappingproxy` view `blotters`, and the      *)
(* three closures `register`, `unregister` and `load` over it.            *)
(*                                                                         *)
(* Names are modelled by the numbers 1..NumNames, ordered as the strings   *)
(* they stand for.  A dict is the sequence of its <<key, value>> items in  *)
(* insertion order.  An exception is a record of its type and message.     *)
(***************************************************************************)
EXTENDS Naturals, Sequences, FiniteSets, TLC

VARIABLES
    heap,        \* the dict objects allocated so far, by reference number
    _blotters,   \* the closure variable _blotters: a reference to a dict
    blotters,    \* the public object `blotters`
    returned,    \* the callable most recently returned by register(name)
    last,        \* the call that completed last, with its outcome
    hist,        \* per name: what register/unregister last succeeded on it
    th           \* the concurrent callers: position and locals of each

vars == <<heap, _blotters, blotters, returned, last, hist, th>>

\* ------------------------------------------------------------------ bounds

NumNames == 2

Names == 1..NumNames

\* The names callers look up or remove: the names they register, and one (0) that
\* no caller ever registers.
LookupNames == Names \cup {0}

\* The claims on concurrency are about two callers.
Threads == {1, 2}

\* ------------------------------------------------------------------ values

\* Every Python value is a record with its type, so any two can be compared.
None == [type |-> "NoneType"]

Class(c) == [type |-> "class", name |-> c]

\* The classes a caller may pass: the abstract base Blotter, two subclasses of
\* it and a class outside its hierarchy.
Classes == {Class("Blotter"), Class("SimulationBlotter"),
            Class("CustomBlotter"), Class("object")}

\* A value that is not a class at all.
NotAClass == [type |-> "instance"]

Values == Classes \cup {NotAClass}

Blotter == Class("Blotter")

\* The method resolution order of each class.
Mro(c) ==
    CASE c.name = "Blotter"           -> {"Blotter", "object"}
      [] c.name = "SimulationBlotter" -> {"SimulationBlotter", "Blotter", "object"}
      [] c.name = "CustomBlotter"     -> {"CustomBlotter", "Blotter", "object"}
      [] OTHER                        -> {"object"}

\* issubclass(c, base), for a class c
issubclass(c, base) == base.name \in Mro(c)

\* ------------------------------------------------------------------ exceptions

NoExc == [type |-> "no exception", msg |-> "", options |-> <<>>]

ValueError(m, opts) == [type |-> "ValueError", msg |-> m, options |-> opts]

TypeError(m) == [type |-> "TypeError", msg |-> m, options |-> <<>>]

\* ------------------------------------------------------------------ dict

EmptyDict == <<>>

DictIndex(d, k) ==
    IF \E i \in 1..Len(d) : d[i][1] = k
    THEN CHOOSE i \in 1..Len(d) : d[i][1] = k
    ELSE 0

\* k in d
DictContains(d, k) == DictIndex(d, k) # 0

\* d[k], for a key that is present
DictGet(d, k) == d[DictIndex(d, k)][2]

\* d[k] = v: a new key goes last, a present key keeps its place
DictSet(d, k, v) ==
    IF DictContains(d, k)
    THEN [d EXCEPT ![DictIndex(d, k)] = <<k, v>>]
    ELSE Append(d, <<k, v>>)

\* del d[k], for a key that is present
DictDel(d, k) ==
    LET i == DictIndex(d, k)
    IN  SubSeq(d, 1, i - 1) \o SubSeq(d, i + 1, Len(d))

\* list(d): the keys in iteration order
DictKeys(d) == [i \in 1..Len(d) |-> d[i][1]]

RECURSIVE InsertSorted(_, _)
InsertSorted(s, x) ==
    IF s = <<>> THEN <<x>>
    ELSE IF x <= Head(s) THEN <<x>> \o s
    ELSE <<Head(s)>> \o InsertSorted(Tail(s), x)

RECURSIVE sorted(_)
\* sorted(iterable): a new list of the items in ascending order
sorted(s) ==
    IF s = <<>> THEN <<>>
    ELSE InsertSorted(sorted(Tail(s)), Head(s))

\* ------------------------------------------------------------------ objects

DictRef(r) == [type |-> "dict", ref |-> r]

\* mappingproxy(mapping): a read-only proxy that keeps a reference to mapping
mappingproxy(mapping) == [type |-> "mappingproxy", mapping |-> mapping]

\* functools.partial(func, *args)
partial(func, args) == [type |-> "partial", func |-> func, args |-> args]

\* The dict an object reads from.
Target(obj) == IF obj.type = "mappingproxy" THEN obj.mapping.ref ELSE obj.ref

\* ------------------------------------------------------------------ the closures

\* What a call does: the exception it raises (or NoExc), the value it returns
\* and the contents it leaves in the dict.
Raise(e, d) == [raised |-> e, ret |-> None, dict |-> d]

Return(v, d) == [raised |-> NoExc, ret |-> v, dict |-> d]

\* Mutant: the callable forgets the name it was made for.
register_decorator_unbound(name) == partial("register", <<>>)

\* register(name) with blotter_class None: the decorator form
register_decorator(name) == partial("register", <<name>>)

\* Mutant: no check of the name, a registered name is overwritten.
register_overwrite(d, name, blotter_class) ==
    IF blotter_class = None
    THEN Return(register_decorator(name), d)
    ELSE IF blotter_class.type # "class"
    THEN Raise(TypeError("issubclass() arg 1 must be a class"), d)
    ELSE IF ~issubclass(blotter_class, Blotter)
    THEN Raise(TypeError("The class specified is not a subclass of Blotter"), d)
    ELSE Return(blotter_class, DictSet(d, name, blotter_class))

\* Mutant: the class is stored before it is checked.
register_store_first(d, name, blotter_class) ==
    IF blotter_class = None
    THEN Return(register_decorator(name), d)
    ELSE IF DictContains(d, name)
    THEN Raise(ValueError("blotter class %r is already registered", <<>>), d)
    ELSE IF blotter_class.type # "class"
    THEN Raise(TypeError("issubclass() arg 1 must be a class"),
               DictSet(d, name, blotter_class))
    ELSE IF ~issubclass(blotter_class, Blotter)
    THEN Raise(TypeError("The class specified is not a subclass of Blotter"),
               DictSet(d, name, blotter_class))
    ELSE Return(blotter_class, DictSet(d, name, blotter_class))

\* Mutant: the base class is stored in place of the class given.
register_store_base(d, name, blotter_class) ==
    IF blotter_class = None
    THEN Return(register_decorator(name), d)
    ELSE IF DictContains(d, name)
    THEN Raise(ValueError("blotter class %r is already registered", <<>>), d)
    ELSE IF blotter_class.type # "class"
    THEN Raise(TypeError("issubclass() arg 1 must be a class"), d)
    ELSE IF ~issubclass(blotter_class, Blotter)
    THEN Raise(TypeError("The class specified is not a subclass of Blotter"), d)
    ELSE Return(blotter_class, DictSet(d, name, Blotter))

\* Mutant: the class is stored without the issubclass test.
register_unchecked(d, name, blotter_class) ==
    IF blotter_class = None
    THEN Return(register_decorator(name), d)
    ELSE IF DictContains(d, name)
    THEN Raise(ValueError("blotter class %r is already registered", <<>>), d)
    ELSE Return(blotter_class, DictSet(d, name, blotter_class))

\* Mutant: the class is stored but not returned.
register_returns_none(d, name, blotter_class) ==
    IF blotter_class = None
    THEN Return(register_decorator(name), d)
    ELSE IF DictContains(d, name)
    THEN Raise(ValueError("blotter class %r is already registered", <<>>), d)
    ELSE IF blotter_class.type # "class"
    THEN Raise(TypeError("issubclass() arg 1 must be a class"), d)
    ELSE IF ~issubclass(blotter_class, Blotter)
    THEN Raise(TypeError("The class specified is not a subclass of Blotter"), d)
    ELSE Return(None, DictSet(d, name, blotter_class))

\* Mutant: the class is tested before the name.
register_contract_first(d, name, blotter_class) ==
    IF blotter_class = None
    THEN Return(register_decorator(name), d)
    ELSE IF blotter_class.type # "class"
    THEN Raise(TypeError("issubclass() arg 1 must be a class"), d)
    ELSE IF ~issubclass(blotter_class, Blotter)
    THEN Raise(TypeError("The class specified is not a subclass of Blotter"), d)
    ELSE IF DictContains(d, name)
    THEN Raise(ValueError("blotter class %r is already registered", <<>>), d)
    ELSE Return(blotter_class, DictSet(d, name, blotter_class))

\* Mutant: the name is tested before the decorator form is recognised.
register_eager(d, name, blotter_class) ==
    IF DictContains(d, name)
    THEN Raise(ValueError("blotter class %r is already registered", <<>>), d)
    ELSE IF blotter_class = None
    THEN Return(register_decorator(name), d)
    ELSE IF blotter_class.type # "class"
    THEN Raise(TypeError("issubclass() arg 1 must be a class"), d)
    ELSE IF ~issubclass(blotter_class, Blotter)
    THEN Raise(TypeError("The class specified is not a subclass of Blotter"), d)
    ELSE Return(blotter_class, DictSet(d, name, blotter_class))

\* register(name, blotter_class=None), on a dict of contents d
register(d, name, blotter_class) ==
    IF blotter_class = None
    THEN Return(register_decorator(name), d)
    ELSE IF DictContains(d, name)
    THEN Raise(ValueError("blotter class %r is already registered", <<>>), d)
    ELSE IF blotter_class.type # "class"
    THEN Raise(TypeError("issubclass() arg 1 must be a class"), d)
    ELSE IF ~issubclass(blotter_class, Blotter)
    THEN Raise(TypeError("The class specified is not a subclass of Blotter"), d)
    ELSE Return(blotter_class, DictSet(d, name, blotter_class))

\* Mutant: the entry is not deleted.
unregister_keep(d, name) ==
    IF DictContains(d, name)
    THEN Return(None, d)
    ELSE Raise(ValueError("blotter class %r was not already registered", <<>>), d)

\* Mutant: an absent name is passed over in silence, as by _blotters.pop(name, None).
unregister_pop(d, name) ==
    IF DictContains(d, name)
    THEN Return(None, DictDel(d, name))
    ELSE Return(None, d)

\* Mutant: every entry is deleted, as by _blotters.clear().
unregister_clear(d, name) ==
    IF DictContains(d, name)
    THEN Return(None, EmptyDict)
    ELSE Raise(ValueError("blotter class %r was not already registered", <<>>), d)

\* unregister(name), on a dict of contents d
unregister(d, name) ==
    IF DictContains(d, name)
    THEN Return(None, DictDel(d, name))
    ELSE Raise(ValueError("blotter class %r was not already registered", <<>>), d)

\* Mutant: the options are listed in the dict's own order, not sorted.
load_unsorted(d, name) ==
    IF DictContains(d, name)
    THEN Return(DictGet(d, name), d)
    ELSE Raise(ValueError("no blotter class registered as %r, options are: %r",
                          DictKeys(d)), d)

\* Mutant: the entry is taken out of the dict, as by _blotters.pop(name).
load_pop(d, name) ==
    IF DictContains(d, name)
    THEN Return(DictGet(d, name), DictDel(d, name))
    ELSE Raise(ValueError("no blotter class registered as %r, options are: %r",
                          sorted(DictKeys(d))), d)

\* load(name), on a dict of contents d
load(d, name) ==
    IF DictContains(d, name)
    THEN Return(DictGet(d, name), d)
    ELSE Raise(ValueError("no blotter class registered as %r, options are: %r",
                          sorted(DictKeys(d))), d)

\* f(*args) for a callable f made by partial: func(*f.args, *args)
CallPartial(d, f, args) ==
    LET all == f.args \o args
    IN  register(d, all[1], IF Len(all) >= 2 THEN all[2] ELSE None)

\* ------------------------------------------------------------------ the module

\* Mutant: the proxy is made over a copy of the dict.
_make_blotters_core_copy ==
    [heap      |-> <<EmptyDict, EmptyDict>>,
     _blotters |-> DictRef(1),
     blotters  |-> mappingproxy(DictRef(2))]

\* Mutant: the dict itself is handed out, with no proxy.
_make_blotters_core_bare ==
    [heap      |-> <<EmptyDict>>,
     _blotters |-> DictRef(1),
     blotters  |-> DictRef(1)]

\* _make_blotters_core(): the dict, and the proxy over it
_make_blotters_core ==
    [heap      |-> <<EmptyDict>>,
     _blotters |-> DictRef(1),
     blotters  |-> mappingproxy(DictRef(1))]

\* The contents of the catalog, and of what the public view shows.
Catalog == heap[_blotters.ref]

ViewContents == heap[Target(blotters)]

Never == [state |-> "never"]

NoCall == [op |-> "none", name |-> 0, arg |-> None, raised |-> NoExc,
           ret |-> None, before |-> EmptyDict, prior |-> Never]

Removed == [state |-> "removed"]

Registered(v) == [state |-> "registered", impl |-> v]

\* A caller that has made no call yet.
Idle == [pc |-> "idle", op |-> "none", name |-> 0, blotter_class |-> None,
         raised |-> NoExc, ret |-> None, conc |-> FALSE, fresh |-> FALSE,
         solo |-> TRUE]

Init ==
    /\ heap = _make_blotters_core.heap
    /\ _blotters = _make_blotters_core._blotters
    /\ blotters = _make_blotters_core.blotters
    /\ returned = None
    /\ last = NoCall
    /\ hist = [n \in LookupNames |-> Never]
    /\ th = [t \in Threads |-> Idle]

\* ------------------------------------------------------------------ calls, one at a time

\* The record of a completed call: its outcome, the catalog it found (before)
\* and the history of its name until then (prior).
Completed(op, name, arg, r, d) ==
    [op |-> op, name |-> name, arg |-> arg, raised |-> r.raised,
     ret |-> r.ret, before |-> d, prior |-> hist[name]]

\* The effect of a completed register(name, v) on the history of name.
HistAfterRegister(name, v, r) ==
    IF v # None /\ r.raised = NoExc
    THEN [hist EXCEPT ![name] = Registered(v)]
    ELSE hist

\* A caller calls register(n, v); v may be None (the decorator form).
Register(n, v) ==
    LET r == register(Catalog, n, v)
    IN  /\ heap' = [heap EXCEPT ![_blotters.ref] = r.dict]
        /\ returned' = IF r.ret.type = "partial"
                       THEN [type |-> "returned", name |-> n, callable |-> r.ret]
                       ELSE returned
        /\ last' = Completed("register", n, v, r, Catalog)
        /\ hist' = HistAfterRegister(n, v, r)
        /\ UNCHANGED <<_blotters, blotters, th>>

\* A caller invokes the callable that register(name) returned, with v.
CallReturned(v) ==
    /\ returned # None
    /\ LET r == CallPartial(Catalog, returned.callable, <<v>>)
       IN  /\ heap' = [heap EXCEPT ![_blotters.ref] = r.dict]
           /\ returned' = IF r.ret.type = "partial"
                          THEN [returned EXCEPT !.callable = r.ret]
                          ELSE returned
           /\ last' = Completed("call_returned", returned.name, v, r, Catalog)
           /\ hist' = HistAfterRegister(returned.name, v, r)
    /\ UNCHANGED <<_blotters, blotters, th>>

\* A caller calls unregister(n).
Unregister(n) ==
    LET r == unregister(Catalog, n)
    IN  /\ heap' = [heap EXCEPT ![_blotters.ref] = r.dict]
        /\ last' = Completed("unregister", n, None, r, Catalog)
        /\ hist' = IF r.raised = NoExc THEN [hist EXCEPT ![n] = Removed] ELSE hist
        /\ UNCHANGED <<_blotters, blotters, returned, th>>

\* A caller calls load(n).
Load(n) ==
    LET r == load(Catalog, n)
    IN  /\ heap' = [heap EXCEPT ![_blotters.ref] = r.dict]
        /\ last' = Completed("load", n, None, r, Catalog)
        /\ UNCHANGED <<_blotters, blotters, returned, hist, th>>

\* ------------------------------------------------------------------ the public view

\* obj[k] = v, by the type of obj
SetItem(obj, d, k, v) ==
    IF obj.type = "mappingproxy"
    THEN Raise(TypeError("'mappingproxy' object does not support item assignment"), d)
    ELSE Return(None, DictSet(d, k, v))

\* del obj[k], by the type of obj
DelItem(obj, d, k) ==
    IF obj.type = "mappingproxy"
    THEN Raise(TypeError("'mappingproxy' object does not support item deletion"), d)
    ELSE IF DictContains(d, k)
    THEN Return(None, DictDel(d, k))
    ELSE Raise([type |-> "KeyError", msg |-> "", options |-> <<>>], d)

\* External code runs blotters[n] = v.
ViewSetItem(n, v) ==
    LET r == SetItem(blotters, ViewContents, n, v)
    IN  /\ heap' = [heap EXCEPT ![Target(blotters)] = r.dict]
        /\ last' = Completed("view_setitem", n, v, r, Catalog)
        /\ UNCHANGED <<_blotters, blotters, returned, hist, th>>

\* External code runs del blotters[n].
ViewDelItem(n) ==
    LET r == DelItem(blotters, ViewContents, n)
    IN  /\ heap' = [heap EXCEPT ![Target(blotters)] = r.dict]
        /\ last' = Completed("view_delitem", n, None, r, Catalog)
        /\ UNCHANGED <<_blotters, blotters, returned, hist, th>>

\* External code runs dict(blotters): a snapshot of what the view shows.
ViewSnapshot ==
    /\ last' = Completed("view_snapshot", 0, None,
                         Return([type |-> "dict", items |-> ViewContents],
                                ViewContents), Catalog)
    /\ UNCHANGED <<heap, _blotters, blotters, returned, hist, th>>

Next ==
    \/ \E n \in Names, v \in Values \cup {None} : Register(n, v)
    \/ \E v \in Values \cup {None} : CallReturned(v)
    \/ \E n \in LookupNames : Unregister(n)
    \/ \E n \in LookupNames : Load(n)
    \/ \E n \in Names, v \in Values : ViewSetItem(n, v)
    \/ \E n \in Names : ViewDelItem(n)
    \/ ViewSnapshot

Spec == Init /\ [][Next]_vars

\* ------------------------------------------------------------------ concurrent callers
\* Two threads call the closures, with no lock in between: each step below is
\* one access to the shared dict or one piece of work on locals, and the
\* threads' steps interleave freely.

\* The classes the concurrent callers pass.
ConcValues == {Class("SimulationBlotter"), Class("CustomBlotter"),
               Class("object"), None}

\* The names the concurrent callers use: the claims on concurrency are about
\* calls on one name and on two distinct names.
ConcNames == {1, 2}

Other(t) == CHOOSE u \in Threads : u # t

Running(t) == th[t].pc \notin {"idle", "done"}

\* Thread t enters a call.  conc records that the call overlaps the other
\* thread's current call, fresh that the name was absent when the call began,
\* solo that the call has overlapped no more than one call of the other thread.
Enter(t, op, pc, n, v) ==
    LET u == Other(t)
        me == [pc |-> pc, op |-> op, name |-> n, blotter_class |-> v,
               raised |-> NoExc, ret |-> None, conc |-> Running(u),
               fresh |-> ~DictContains(Catalog, n), solo |-> TRUE]
    IN  /\ th' = [th EXCEPT ![t] = me,
                            ![u].conc = IF Running(u) THEN TRUE ELSE @,
                            ![u].solo = IF Running(u) /\ th[u].conc
                                        THEN FALSE ELSE @]
        /\ UNCHANGED <<heap, _blotters, blotters, returned, last, hist>>

Finish(t, e, v) == [th EXCEPT ![t].pc = "done", ![t].raised = e, ![t].ret = v]

Local == <<heap, _blotters, blotters, returned, last, hist>>

\* Thread t calls register(n, v).
CallRegister(t, n, v) ==
    /\ ~Running(t)
    /\ Enter(t, "register", "r58", n, v)

\* if blotter_class is None: return partial(register, name)
Reg58(t) ==
    /\ th[t].pc = "r58"
    /\ th' = IF th[t].blotter_class = None
             THEN Finish(t, NoExc, register_decorator(th[t].name))
             ELSE [th EXCEPT ![t].pc = "r62"]
    /\ UNCHANGED Local

\* if name in _blotters: raise ValueError
Reg62(t) ==
    /\ th[t].pc = "r62"
    /\ th' = IF DictContains(Catalog, th[t].name)
             THEN Finish(t, ValueError("blotter class %r is already registered",
                                       <<>>), None)
             ELSE [th EXCEPT ![t].pc = "r65"]
    /\ UNCHANGED Local

\* if not issubclass(blotter_class, Blotter): raise TypeError
Reg65(t) ==
    /\ th[t].pc = "r65"
    /\ th' = IF th[t].blotter_class.type # "class"
             THEN Finish(t, TypeError("issubclass() arg 1 must be a class"), None)
             ELSE IF ~issubclass(th[t].blotter_class, Blotter)
             THEN Finish(t, TypeError(
                      "The class specified is not a subclass of Blotter"), None)
             ELSE [th EXCEPT ![t].pc = "r68"]
    /\ UNCHANGED Local

\* Mutant: the dict is replaced by one that holds the new entry alone.
Reg68_rebind(t) ==
    /\ th[t].pc = "r68"
    /\ heap' = [heap EXCEPT ![_blotters.ref] =
                   DictSet(EmptyDict, th[t].name, th[t].blotter_class)]
    /\ th' = [th EXCEPT ![t].pc = "r70"]
    /\ UNCHANGED <<_blotters, blotters, returned, last, hist>>

\* _blotters[name] = blotter_class
Reg68(t) ==
    /\ th[t].pc = "r68"
    /\ heap' = [heap EXCEPT ![_blotters.ref] =
                   DictSet(Catalog, th[t].name, th[t].blotter_class)]
    /\ th' = [th EXCEPT ![t].pc = "r70"]
    /\ UNCHANGED <<_blotters, blotters, returned, last, hist>>

\* return blotter_class
Reg70(t) ==
    /\ th[t].pc = "r70"
    /\ th' = Finish(t, NoExc, th[t].blotter_class)
    /\ UNCHANGED Local

\* Thread t calls unregister(n).
CallUnregister(t, n) ==
    /\ ~Running(t)
    /\ Enter(t, "unregister", "u86", n, None)

\* try: del _blotters[name]; except KeyError: raise ValueError
Unreg86(t) ==
    /\ th[t].pc = "u86"
    /\ LET r == unregister(Catalog, th[t].name)
       IN  /\ heap' = [heap EXCEPT ![_blotters.ref] = r.dict]
           /\ th' = Finish(t, r.raised, r.ret)
    /\ UNCHANGED <<_blotters, blotters, returned, last, hist>>

\* Thread t calls load(n).
CallLoad(t, n) ==
    /\ ~Running(t)
    /\ Enter(t, "load", "l106", n, None)

\* try: blotter_class = _blotters[name]; return blotter_class
Load106(t) ==
    /\ th[t].pc = "l106"
    /\ th' = IF DictContains(Catalog, th[t].name)
             THEN Finish(t, NoExc, DictGet(Catalog, th[t].name))
             ELSE [th EXCEPT ![t].pc = "l108"]
    /\ UNCHANGED Local

\* except KeyError: raise ValueError(... sorted(_blotters))
Load108(t) ==
    /\ th[t].pc = "l108"
    /\ th' = Finish(t, ValueError(
                 "no blotter class registered as %r, options are: %r",
                 sorted(DictKeys(Catalog))), None)
    /\ UNCHANGED Local

NextConc ==
    \E t \in Threads :
        \/ \E n \in ConcNames, v \in ConcValues : CallRegister(t, n, v)
        \/ Reg58(t)
        \/ Reg62(t)
        \/ Reg65(t)
        \/ Reg68(t)
        \/ Reg70(t)
        \/ \E n \in ConcNames : CallUnregister(t, n)
        \/ Unreg86(t)
        \/ \E n \in ConcNames : CallLoad(t, n)
        \/ Load106(t)
        \/ Load108(t)

SpecConc == Init /\ [][NextConc]_vars

\* ------------------------------------------------------------------ the errors of the specification

DuplicateName(e) ==
    e.type = "ValueError" /\ e.msg = "blotter class %r is already registered"

ContractViolation(e) ==
    /\ e.type = "TypeError"
    /\ e.msg \in {"The class specified is not a subclass of Blotter",
                  "issubclass() arg 1 must be a class"}

UnregisterNotFound(e) ==
    e.type = "ValueError" /\ e.msg = "blotter class %r was not already registered"

LoadNotFound(e) ==
    /\ e.type = "ValueError"
    /\ e.msg = "no blotter class registered as %r, options are: %r"

ImmutableViolation(e) ==
    /\ e.type = "TypeError"
    /\ e.msg \in {"'mappingproxy' object does not support item assignment",
                  "'mappingproxy' object does not support item deletion"}

\* The Entry Contract: a class that is a subclass of the abstract Blotter.
SatisfiesContract(v) == v.type = "class" /\ issubclass(v, Blotter)

\* The last call registered an implementation: register(n, v) with v given,
\* directly or through the callable of the decorator form.
LastIsRegister == last.op \in {"register", "call_returned"} /\ last.arg # None

KeySet(d) == {d[i][1] : i \in 1..Len(d)}

IsSorted(s) == \A i, j \in 1..Len(s) : i < j => s[i] < s[j]

\* ------------------------------------------------------------------ claims

C4_RoundTrip ==
    (last.op = "load" /\ hist[last.name].state = "registered")
    => (last.raised = NoExc /\ last.ret = hist[last.name].impl)

C4_Witness ==
    /\ last.op = "load"
    /\ hist[last.name].state = "registered"
    /\ last.ret = Class("CustomBlotter")
    /\ \E m \in Names : m # last.name /\ hist[m].state # "never"

\* C5: after register(n, A) and then unregister(n) have succeeded, and until
\* n is registered again, n is absent from the catalog and load(n) fails with
\* Not-Found.
C5_Removal ==
    /\ \A n \in Names : hist[n] = Removed => ~DictContains(Catalog, n)
    /\ (last.op = "load" /\ hist[last.name] = Removed)
       => LoadNotFound(last.raised)

C5_Witness ==
    /\ last.op = "load"
    /\ hist[last.name] = Removed
    /\ LoadNotFound(last.raised)

\* C6: load(n) of an absent name fails with Not-Found, and the error lists
\* exactly the names of the catalog, each once, in ascending order.
C6_UnknownLookup ==
    (last.op = "load" /\ ~DictContains(last.before, last.name))
    => /\ LoadNotFound(last.raised)
       /\ IsSorted(last.raised.options)
       /\ {last.raised.options[i] : i \in 1..Len(last.raised.options)}
            = KeySet(last.before)
       /\ Len(last.raised.options) = Len(last.before)

C6_Witness ==
    /\ last.op = "load"
    /\ LoadNotFound(last.raised)
    /\ Len(last.raised.options) >= 2
    /\ last.raised.options # DictKeys(last.before)

\* C6, the empty catalog: the list is empty.
C6_WitnessEmpty ==
    last.op = "load" /\ LoadNotFound(last.raised) /\ last.raised.options = <<>>

\* C7: unregister(n) of an absent name fails with Not-Found and leaves the
\* catalog as it was.
C7_UnregisterAbsent ==
    (last.op = "unregister" /\ ~DictContains(last.before, last.name))
    => (UnregisterNotFound(last.raised) /\ Catalog = last.before)

C7_Witness ==
    /\ last.op = "unregister"
    /\ UnregisterNotFound(last.raised)
    /\ Len(Catalog) >= 1
    /\ hist[last.name] = Removed

\* C8: register(n) without an implementation returns a callable, and calling
\* it with A has the outcome and the resulting catalog of register(n, A); on
\* success it returns A.
C8_DecoratorForm ==
    /\ (last.op = "register" /\ last.arg = None)
       => (last.raised = NoExc /\ last.ret.type = "partial")
    /\ last.op = "call_returned"
       => LET r == register(last.before, last.name, last.arg)
          IN  /\ last.raised = r.raised
              /\ last.ret = r.ret
              /\ Catalog = r.dict
              /\ (last.raised = NoExc /\ last.arg # None) => last.ret = last.arg

C8_Witness ==
    /\ last.op = "call_returned"
    /\ last.raised = NoExc
    /\ last.ret = last.arg
    /\ last.arg = Class("SimulationBlotter")
    /\ Len(last.before) >= 1
    /\ DictGet(Catalog, last.name) = last.arg

\* C8, the failures: the callable fails as register(n, A) does.
C8_WitnessError ==
    last.op = "call_returned" /\ DuplicateName(last.raised)

\* C9: what the view shows is what the catalog holds, in every state.
C9_LiveView ==
    /\ ViewContents = Catalog
    /\ last.op = "view_snapshot" => last.ret.items = Catalog

C9_Witness ==
    /\ last.op = "view_snapshot"
    /\ Len(last.ret.items) >= 1
    /\ \E n \in Names : hist[n] = Removed

\* C10: an insert, an overwrite or a delete through the view fails with
\* Immutable-Violation and leaves the catalog unchanged: every name that was
\* registered still loads, and loads the same implementation.
C10_ViewImmutable ==
    last.op \in {"view_setitem", "view_delitem"}
    => /\ ImmutableViolation(last.raised)
       /\ Catalog = last.before
       /\ \A n \in KeySet(last.before) :
            /\ load(Catalog, n).raised = NoExc
            /\ load(Catalog, n).ret = DictGet(last.before, n)

C10_Witness ==
    /\ last.op = "view_delitem"
    /\ DictContains(last.before, last.name)
    /\ ImmutableViolation(last.raised)
    /\ DictContains(Catalog, last.name)

\* C10, insert and overwrite.
C10_WitnessSet ==
    /\ last.op = "view_setitem"
    /\ DictContains(last.before, last.name)
    /\ DictGet(last.before, last.name) # last.arg
    /\ ImmutableViolation(last.raised)

\* Both threads have completed register calls that overlapped in time, for
\* one name that was absent when each began, each with a class that
\* satisfies the Entry Contract.
RacedRegisters ==
    /\ \A t \in Threads :
         /\ th[t].pc = "done"
         /\ th[t].op = "register"
         /\ th[t].conc
         /\ th[t].fresh
         /\ SatisfiesContract(th[t].blotter_class)
    /\ th[1].name = th[2].name

\* C3 as stated: of two concurrent register calls for the same name, exactly
\* one succeeds and the other fails with Duplicate-Name, and the catalog maps
\* the name to the class of the call that succeeded.
C3_ConcurrentSameName ==
    RacedRegisters
    => \E t \in Threads :
         /\ th[t].raised = NoExc
         /\ DuplicateName(th[Other(t)].raised)
         /\ DictContains(Catalog, th[t].name)
         /\ DictGet(Catalog, th[t].name) = th[t].blotter_class

C15_LoadIsPure ==
    last.op = "load" => Catalog = last.before

C15_Witness ==
    /\ last.op = "load"
    /\ last.raised = NoExc
    /\ Len(Catalog) >= 2

\* C15, the failing load.
C15_WitnessNotFound ==
    /\ last.op = "load"
    /\ LoadNotFound(last.raised)
    /\ Len(Catalog) >= 1

\* The entries of dict d other than that of name n are those of dict e.
SameButFor(d, e, n) ==
    \A m \in LookupNames \ {n} :
        /\ DictContains(d, m) = DictContains(e, m)
        /\ DictContains(d, m) => DictGet(d, m) = DictGet(e, m)

C18_DecoratorDefers ==
    /\ (last.op = "register" /\ last.arg = None)
       => /\ last.raised = NoExc
          /\ last.ret.type = "partial"
          /\ Catalog = last.before
    /\ (last.op = "call_returned" /\ last.arg # None)
       => IF DictContains(last.before, last.name)
          THEN DuplicateName(last.raised)
          ELSE IF ~SatisfiesContract(last.arg)
          THEN ContractViolation(last.raised)
          ELSE last.raised = NoExc

C18_Witness ==
    /\ last.op = "register"
    /\ last.arg = None
    /\ DictContains(last.before, last.name)
    /\ last.raised = NoExc
    /\ Catalog = last.before

\* C18, the errors come when the callable is called.
C18_WitnessCalled ==
    /\ last.op = "call_returned"
    /\ ContractViolation(last.raised)
    /\ Len(Catalog) >= 1

\* C19: a successful register(n, A) or unregister(n) leaves every other
\* name as it was: present or absent, and mapped to the same class.
C19_OnlyTheNameChanges ==
    ( /\ LastIsRegister \/ last.op = "unregister"
      /\ last.raised = NoExc )
    => SameButFor(Catalog, last.before, last.name)

C19_Witness ==
    /\ last.op = "unregister"
    /\ last.raised = NoExc
    /\ Len(Catalog) >= 1

\* C19, a register next to another entry.
C19_WitnessRegister ==
    /\ LastIsRegister
    /\ last.raised = NoExc
    /\ Len(last.before) >= 1

\* C14: after register(n, A) and then unregister(n) have succeeded,
\* register(n, B) with a B that satisfies the Entry Contract succeeds, and
\* load(n) then returns B.
C14_RegisterAfterRemoval ==
    ( /\ LastIsRegister
      /\ last.prior = Removed
      /\ SatisfiesContract(last.arg) )
    => /\ last.raised = NoExc
       /\ last.ret = last.arg
       /\ load(Catalog, last.name).raised = NoExc
       /\ load(Catalog, last.name).ret = last.arg

C14_Witness ==
    /\ last.op = "register"
    /\ last.prior = Removed
    /\ last.raised = NoExc
    /\ hist[last.name] = Registered(last.arg)
    /\ DictGet(Catalog, last.name) = last.arg

\* Both threads have completed register calls that overlapped in time and
\* overlapped no other call, for two distinct names, each absent when its
\* call began, each with a class that satisfies the Entry Contract.
RacedDistinctRegisters ==
    /\ \A t \in Threads :
         /\ th[t].pc = "done"
         /\ th[t].op = "register"
         /\ th[t].conc
         /\ th[t].solo
         /\ th[t].fresh
         /\ SatisfiesContract(th[t].blotter_class)
    /\ th[1].name # th[2].name

\* C12: two concurrent register calls for distinct, unregistered names, with
\* classes that satisfy the Entry Contract, both succeed, and each name then
\* loads its own class.
C12_ConcurrentDistinctNames ==
    RacedDistinctRegisters
    => \A t \in Threads :
         /\ th[t].raised = NoExc
         /\ th[t].ret = th[t].blotter_class
         /\ load(Catalog, th[t].name).raised = NoExc
         /\ load(Catalog, th[t].name).ret = th[t].blotter_class

C12_Witness ==
    /\ RacedDistinctRegisters
    /\ th[1].blotter_class # th[2].blotter_class
    /\ Len(Catalog) = 2
    /\ \A t \in Threads : th[t].raised = NoExc

\* C13 as stated, for load: a load that runs while another thread registers
\* or unregisters observes one catalog, the one before or the one after the
\* mutation; so a load that fails with Not-Found for a name does not list that
\* name among the registered ones.
C13_LoadSeesOneCatalog ==
    \A t \in Threads :
        ( /\ th[t].pc = "done"
          /\ th[t].op = "load"
          /\ LoadNotFound(th[t].raised) )
        => \A i \in 1..Len(th[t].raised.options) :
              th[t].raised.options[i] # th[t].name

====
